---- MODULE Spec2Model ----
(***************************************************************************)
(* Model of the document QA bot: vectorstore.py (VectorStore), chatbot.py  *)
(* (Chatbot) and the Streamlit script app.py.                              *)
(*                                                                         *)
(* A Python str is modelled as a sequence of one-character strings, so     *)
(* that len, split(". "), strip and + are computed as Python computes      *)
(* them.                                                                   *)
(***************************************************************************)
EXTENDS Integers, Sequences, FiniteSets, TLC

VARIABLES
    api_keys,           \* app.py: both sidebar keys are non-empty
    uploaded_file,      \* app.py: the file_uploader widget (file id or None)
    prompt,             \* app.py: the chat_input value of the running script
    pc,                 \* app.py: position of the running script
    chat_history,       \* st.session_state.chat_history
    vector_store,       \* st.session_state.vector_store (object id, 0 for None)
    chatbot,            \* st.session_state.chatbot (NoChatbot for None)
    processed_file_id,  \* st.session_state.processed_file_id
    stores,             \* the VectorStore objects built so far, by object id
    index_names,        \* Pinecone: pc.list_indexes().names()
    index_data,         \* Pinecone: the entries of index 'rag-qa-bot', by id
    uuids,              \* number of uuid4 values drawn so far
    ingest,             \* outcome of the last process_document call
    retrieval,          \* what the last respond call retrieved and sent
    shown,              \* st.error / st.success shown by the last script run
    last_replace,       \* index entries after the last completed _index_chunks
    arg,                \* input of the function called on its own
    ret                 \* <<>> before the call, <<result>> after it

vars == <<api_keys, uploaded_file, prompt, pc, chat_history, vector_store,
          chatbot, processed_file_id, stores, index_names, index_data, uuids,
          ingest, retrieval, shown, last_replace, arg, ret>>

None == "None"

-----------------------------------------------------------------------------------------------------------------------------------------------------
(* Python str.  A str is held run-length encoded: a sequence of runs       *)
(* [c, n], n >= 1 copies of the character c, no two neighbouring runs of   *)
(* the same character.  Every str has exactly one such encoding, so ==     *)
(* on str is = on encodings; len, +, strip and split(". ") below give the  *)
(* encoding of what Python gives.                                          *)

Run(c, n) == [c |-> c, n |-> n]

\* c * n
Rep(c, n) == IF n > 0 THEN <<Run(c, n)>> ELSE <<>>

\* len(s)
RECURSIVE StrLen(_)
StrLen(s) == IF s = <<>> THEN 0 ELSE Head(s).n + StrLen(Tail(s))

\* a + b
Cat(a, b) ==
    IF a = <<>> THEN b
    ELSE IF b = <<>> THEN a
    ELSE IF a[Len(a)].c = b[1].c
    THEN SubSeq(a, 1, Len(a) - 1) \o <<Run(b[1].c, a[Len(a)].n + b[1].n)>> \o Tail(b)
    ELSE a \o b

\* the str of a sequence of characters
RECURSIVE Str(_)
Str(chars) ==
    IF chars = <<>> THEN <<>>
    ELSE Cat(Rep(Head(chars), 1), Str(Tail(chars)))

Min(S) == CHOOSE x \in S : \A y \in S : x <= y
Max(S) == CHOOSE x \in S : \A y \in S : x >= y

\* str.isspace for the characters used here
IsSpace(c) == c \in {" ", "\n", "\t"}

\* s.strip(): without its leading and trailing whitespace runs
Strip(s) ==
    LET keep == {i \in 1..Len(s) : ~IsSpace(s[i].c)}
    IN  IF keep = {} THEN <<>> ELSE SubSeq(s, Min(keep), Max(keep))

\* the literal delimiter of text.split(". ")
Delim == Str(<<".", " ">>)

\* s without the last character of its last run / the first of its first
DropLast(s) ==
    IF s[Len(s)].n = 1 THEN SubSeq(s, 1, Len(s) - 1)
    ELSE [s EXCEPT ![Len(s)].n = @ - 1]
DropFirst(s) ==
    IF s[1].n = 1 THEN Tail(s) ELSE [s EXCEPT ![1].n = @ - 1]

\* s.split(". "): scan left to right, cut at every occurrence.  ". " occurs
\* where a run of "." meets a run of " ": its last "." and its first " "
RECURSIVE PySplit(_)
PySplit(s) ==
    LET hits == {i \in 1..(Len(s) - 1) : s[i].c = "." /\ s[i + 1].c = " "}
    IN  IF hits = {} THEN <<s>>
        ELSE LET p == Min(hits)
             IN  <<DropLast(SubSeq(s, 1, p))>>
                 \o PySplit(DropFirst(SubSeq(s, p + 1, Len(s))))

\* str(i) for i >= 0
Digits == <<"0", "1", "2", "3", "4", "5", "6", "7", "8", "9">>
RECURSIVE PyStr(_)
PyStr(i) == IF i < 10 THEN Digits[i + 1]
            ELSE PyStr(i \div 10) \o Digits[(i % 10) + 1]

-----------------------------------------------------------------------------
(* VectorStore._split_text                                                 *)

default_chunk_size == 1000

\* the for loop of _split_text from sentence k on: <<chunks, current_chunk>>
RECURSIVE SplitLoop(_, _, _, _, _)
SplitLoop(sentences, k, chunk_size, chunks, current_chunk) ==
    IF k > Len(sentences) THEN <<chunks, current_chunk>>
    ELSE LET sentence == sentences[k]
         IN  IF StrLen(current_chunk) + StrLen(sentence) < chunk_size
             THEN SplitLoop(sentences, k + 1, chunk_size, chunks,
                            Cat(current_chunk, Cat(sentence, Delim)))
             ELSE SplitLoop(sentences, k + 1, chunk_size,
                            Append(chunks, Strip(current_chunk)),
                            Cat(sentence, Delim))

split_text(text, chunk_size) ==
    LET r == SplitLoop(PySplit(text), 1, chunk_size, <<>>, <<>>)
    IN  IF r[2] # <<>> THEN Append(r[1], Strip(r[2])) ELSE r[1]

-----------------------------------------------------------------------------
(* Cohere embed and VectorStore._embed_chunks                              *)

\* co.embed: one vector per text, in order; the vector depends on the text
\* and on input_type
Embedding(text, input_type) == <<input_type, text>>

co_embed(texts, input_type) ==
    [i \in 1..Len(texts) |-> Embedding(texts[i], input_type)]

default_batch_size == 90

EmbedRequest(n, input_type) ==
    [api |-> "embed", input_type |-> input_type, n |-> n]

\* a slice that loses the last text of every full batch
BatchSliceShort(chunks, i, batch_size) ==
    SubSeq(chunks, i + 1, IF i + batch_size < Len(chunks)
                          THEN i + batch_size - 1 ELSE Len(chunks))

\* chunks[i:min(i + batch_size, total_chunks)], i counted from 0
BatchSlice(chunks, i, batch_size) ==
    SubSeq(chunks, i + 1, IF i + batch_size < Len(chunks)
                          THEN i + batch_size ELSE Len(chunks))

\* the loop of _embed_chunks from offset i on; co.embed raises on the batch
\* numbers in `stops` (counted from 0)
\* result: [embeddings, requests, raised]
RECURSIVE EmbedLoop(_, _, _, _, _, _)
EmbedLoop(chunks, i, batch_size, stops, embeddings, requests) ==
    IF i >= Len(chunks)
    THEN [embeddings |-> embeddings, requests |-> requests, raised |-> FALSE]
    ELSE LET batch == BatchSlice(chunks, i, batch_size)
             sent  == Append(requests, EmbedRequest(Len(batch), "search_document"))
         IN  IF Len(requests) \in stops
             THEN [embeddings |-> embeddings, requests |-> sent, raised |-> TRUE]
             ELSE EmbedLoop(chunks, i + batch_size, batch_size, stops,
                            embeddings \o co_embed(batch, "search_document"),
                            sent)

embed_chunks(chunks, batch_size, stops) ==
    EmbedLoop(chunks, 0, batch_size, stops, <<>>, <<>>)

-----------------------------------------------------------------------------
(* Inputs of the function-level specifications                             *)

MaxTextLen == 5
MaxChunkSize == 4
MaxChunks == 4
MaxBatch == 3

Alphabet == {"a", ".", " "}

\* all character sequences over Alphabet of length <= n
TextsUpTo(n) == {Str(t) : t \in UNION {[1..k -> Alphabet] : k \in 0..n}}

\* "The sky is blue. Grass is green. Water is wet."
Scenario1Text == Str(
    <<"T","h","e"," ","s","k","y"," ","i","s"," ","b","l","u","e","."," ",
      "G","r","a","s","s"," ","i","s"," ","g","r","e","e","n","."," ",
      "W","a","t","e","r"," ","i","s"," ","w","e","t",".">>)
Scenario1Chunks ==
    << Str(<<"T","h","e"," ","s","k","y"," ","i","s"," ","b","l","u","e",".">>),
       Str(<<"G","r","a","s","s"," ","i","s"," ","g","r","e","e","n",".">>),
       Str(<<"W","a","t","e","r"," ","i","s"," ","w","e","t",".">>) >>

-----------------------------------------------------------------------------
(* The uploaded PDF files and fitz text extraction                         *)

\* sentence-like fragments long enough that no two share a chunk
FragLen == 500
FragX == Rep("x", FragLen)
FragY == Rep("y", FragLen)
FragZ == Cat(Rep("z", FragLen - 1), Str(<<".">>))

\* file ids of the uploads; the broken one cannot be opened by fitz.open
Files == {"report", "note", "blank", "broken"}

\* the text page.get_text yields, all pages concatenated
PdfText(f) ==
    CASE f = "report" -> Cat(FragX, Cat(Delim, Cat(FragX, Cat(Delim,
                             Cat(FragY, Cat(Delim, FragZ))))))
      [] f = "note"   -> Str(<<"H", "i", ".", " ", "B", "y", "e", ".">>)
      [] f = "blank"  -> <<>>
      [] OTHER        -> <<>>

\* _extract_text_from_pdf: [raised, text]
extract_text_from_pdf(f) ==
    IF f = "broken" THEN [raised |-> TRUE, text |-> <<>>]
    ELSE [raised |-> FALSE, text |-> PdfText(f)]

-----------------------------------------------------------------------------
(* VectorStore.__init__ and VectorStore._index_chunks                      *)

index_name == "rag-qa-bot"
default_dimension == 1024
retrieve_top_k == 10
rerank_top_k == 3
upsert_batch_size == 100

\* a VectorStore right after __init__ (the dimension probe yields 1024, and
\* so does its fallback)
NewVectorStore ==
    [index |-> FALSE, dimension |-> default_dimension,
     retrieve_top_k |-> retrieve_top_k, rerank_top_k |-> rerank_top_k]

Request(api) == [api |-> api, input_type |-> "-", n |-> 0]
UpsertRequest(n) == [api |-> "upsert", input_type |-> "-", n |-> n]

\* the provider requests that can raise during process_document
IngestFailures == {"none", "embed", "list_indexes", "create_index",
                   "describe_index", "delete", "upsert"}

\* number of batches range(0, n, size) walks through
NumBatches(n, size) == (n + size - 1) \div size

\* vectors_to_upsert: zip(chunks, embeddings), ids str(0) .. str(n - 1)
VectorsToUpsert(chunks, embeddings) ==
    LET n == IF Len(chunks) < Len(embeddings) THEN Len(chunks) ELSE Len(embeddings)
    IN  [i \in 1..n |-> [id |-> PyStr(i - 1), values |-> embeddings[i],
                         metadata |-> [text |-> chunks[i]]]]

\* index.upsert(vectors=batch): insert or overwrite by id
Upsert(data, batch) ==
    LET ids == {batch[j].id : j \in 1..Len(batch)}
    IN  [id \in DOMAIN data \cup ids |->
            IF id \in ids
            THEN LET j == CHOOSE j \in 1..Len(batch) : batch[j].id = id
                 IN  [values |-> batch[j].values, metadata |-> batch[j].metadata]
            ELSE data[id]]

EmptyIndex == [id \in {} |-> None]

\* a delete that removes nothing
DeleteNothing(data) == data

\* index.delete(delete_all=True)
DeleteAll(data) == EmptyIndex

\* the upsert loop from offset i on; the requests of the batch numbers in
\* `stops` raise. result: [data, requests, raised]
RECURSIVE UpsertLoop(_, _, _, _, _)
UpsertLoop(vectors, i, stops, data, requests) ==
    IF i >= Len(vectors)
    THEN [data |-> data, requests |-> requests, raised |-> FALSE]
    ELSE LET batch == BatchSlice(vectors, i, upsert_batch_size)
             sent  == Append(requests, UpsertRequest(Len(batch)))
         IN  IF Len(requests) \in stops
             THEN [data |-> data, requests |-> sent, raised |-> TRUE]
             ELSE UpsertLoop(vectors, i + upsert_batch_size, stops,
                             Upsert(data, batch), sent)

\* _index_chunks on a store, with the remote state (names, data).
\* fail names the request that raises, at its batch number `at`.
\* result: [raised, index (handle set), names, data, requests]
index_chunks(store, names, data, chunks, embeddings, fail, at) ==
    LET r0 == <<Request("list_indexes")>>
        absent == index_name \notin names
        r1 == IF absent THEN Append(r0, Request("create_index")) ELSE r0
        r2 == IF absent THEN Append(r1, Request("describe_index")) ELSE r1
        names2 == names \cup {index_name}
        r3 == Append(r2, Request("delete"))
        up == UpsertLoop(VectorsToUpsert(chunks, embeddings), 0,
                         IF fail = "upsert" THEN {at} ELSE {},
                         DeleteAll(data), <<>>)
    IN  IF fail = "list_indexes"
        THEN [raised |-> TRUE, index |-> store.index, names |-> names,
              data |-> data, requests |-> r0]
        ELSE IF absent /\ fail = "create_index"
        THEN [raised |-> TRUE, index |-> store.index, names |-> names,
              data |-> data, requests |-> r1]
        ELSE IF absent /\ fail = "describe_index"
        THEN [raised |-> TRUE, index |-> store.index, names |-> names2,
              data |-> data, requests |-> r2]
        ELSE IF fail = "delete"
        THEN [raised |-> TRUE, index |-> TRUE, names |-> names2,
              data |-> data, requests |-> r3]
        ELSE [raised |-> up.raised, index |-> TRUE, names |-> names2,
              data |-> up.data, requests |-> r3 \o up.requests]

-----------------------------------------------------------------------------
(* VectorStore.process_document                                            *)

\* result: [status, index, names, data, requests]
\*   status "ok": ran to the end; "early": returned before indexing;
\*   "raised": an exception left the method
process_document(store, names, data, f, fail, at) ==
    LET ex     == extract_text_from_pdf(f)
        chunks == split_text(ex.text, default_chunk_size)
        em     == embed_chunks(chunks, default_batch_size,
                               IF fail = "embed" THEN {at} ELSE {})
        ix     == index_chunks(store, names, data, chunks, em.embeddings, fail, at)
        same(status, requests) ==
            [status |-> status, index |-> store.index, names |-> names,
             data |-> data, requests |-> requests]
    IN  IF ex.raised THEN same("raised", <<>>)
        ELSE IF chunks = <<>> THEN same("early", <<>>)
        ELSE IF em.raised THEN same("raised", em.requests)
        ELSE IF em.embeddings = <<>> THEN same("early", em.requests)
        ELSE [status |-> IF ix.raised THEN "raised" ELSE "ok",
              index |-> ix.index, names |-> ix.names, data |-> ix.data,
              requests |-> em.requests \o ix.requests]

\* the batch numbers at which a request of process_document can raise
FailPoints(f, fail) ==
    LET n == Len(split_text(extract_text_from_pdf(f).text, default_chunk_size))
        size == IF fail = "embed" THEN default_batch_size ELSE upsert_batch_size
    IN  IF fail \in {"embed", "upsert"} /\ n > 0
        THEN 0..(NumBatches(n, size) - 1) ELSE {0}

-----------------------------------------------------------------------------
(* VectorStore.retrieve                                                    *)

\* all orderings of a finite set
RECURSIVE Perms(_)
Perms(S) ==
    IF S = {} THEN {<<>>}
    ELSE UNION {{<<x>> \o p : p \in Perms(S \ {x})} : x \in S}

\* all sequences of k distinct elements of S
RECURSIVE Arrangements(_, _)
Arrangements(S, k) ==
    IF k = 0 THEN {<<>>}
    ELSE UNION {{<<x>> \o p : p \in Arrangements(S \ {x}, k - 1)} : x \in S}

Least(a, b) == IF a < b THEN a ELSE b

\* index.query(top_k, include_metadata): the top_k nearest entries in the
\* order `order` the similarity metric gives the stored ids
IndexQuery(data, order, top_k) ==
    [j \in 1..Least(top_k, Len(order)) |->
        [id |-> order[j], metadata |-> data[order[j]].metadata]]

\* the results co.rerank may return for n documents: top_n distinct
\* positions (from 1 here, from 0 in Python), most relevant first
RerankResults(n, top_n) == Arrangements(1..n, Least(top_n, n))

RetrieveFailures == {"none", "embed", "query", "rerank"}

\* original_metadata = res['matches'][result.index]['metadata']
OriginalMetadata(matches, ranks, k) == matches[ranks[k]].metadata

\* result: [raised, docs, requests, candidates, ranked]
\*   candidates: the payloads index.query returned
\*   ranked: the texts co.rerank picked from docs_to_rerank, in its order
retrieve(store, data, query, fail, order, ranks) ==
    LET r1 == <<EmbedRequest(1, "search_query")>>
        r2 == Append(r1, Request("query"))
        r3 == Append(r2, Request("rerank"))
        matches == IndexQuery(data, order, store.retrieve_top_k)
        docs_to_rerank == [j \in 1..Len(matches) |-> matches[j].metadata.text]
        candidates == {matches[j].metadata : j \in 1..Len(matches)}
        out(raised, docs, requests, cands, rk) ==
            [raised |-> raised, docs |-> docs, requests |-> requests,
             candidates |-> cands, ranked |-> rk]
    IN  IF ~store.index THEN out(FALSE, <<>>, <<>>, {}, <<>>)
        ELSE IF fail = "embed" THEN out(TRUE, <<>>, r1, {}, <<>>)
        ELSE IF fail = "query" THEN out(TRUE, <<>>, r2, {}, <<>>)
        ELSE IF docs_to_rerank = <<>> THEN out(FALSE, <<>>, r2, candidates, <<>>)
        ELSE IF fail = "rerank" THEN out(TRUE, <<>>, r3, candidates, <<>>)
        ELSE out(FALSE,
                 [k \in 1..Len(ranks) |-> OriginalMetadata(matches, ranks, k)],
                 r3, candidates,
                 [k \in 1..Len(ranks) |-> docs_to_rerank[ranks[k]]])

-----------------------------------------------------------------------------
(* Chatbot                                                                 *)

\* st.session_state.chatbot = None
NoChatbot == [vectorstore |-> 0, conversation_id |-> 0]

\* a constructor that reuses one conversation id
NewChatbotSameId(store_id, drawn) ==
    [vectorstore |-> store_id, conversation_id |-> 1]

\* Chatbot.__init__: conversation_id = str(uuid.uuid4()), a value never
\* drawn before
NewChatbot(store_id, drawn) ==
    [vectorstore |-> store_id, conversation_id |-> drawn + 1]

\* no de-duplication at all
KeepAllDocs(docs, seen) == docs

\* unique_docs: keep the first document of every text, in first-seen order
RECURSIVE UniqueDocs(_, _)
UniqueDocs(docs, seen) ==
    IF docs = <<>> THEN <<>>
    ELSE IF Head(docs).text \in seen THEN UniqueDocs(Tail(docs), seen)
    ELSE <<Head(docs)>> \o UniqueDocs(Tail(docs), seen \cup {Head(docs).text})

\* no respond call has been made
NoRetrieval ==
    [status |-> "none", requests |-> <<>>, documents |-> <<>>,
     conversation_id |-> 0, message |-> None, index |-> FALSE,
     candidates |-> {}, ranked |-> <<>>]

RespondFailures == RetrieveFailures \cup {"chat_stream"}

\* Chatbot.respond. result: [status, requests, documents, conversation_id,
\*  message, index, candidates, ranked]; status "stream": a stream was returned,
\*  "raised": an exception left respond
respond(bot, store, data, user_message, fail, order, ranks) ==
    LET rt == retrieve(store, data, user_message, fail, order, ranks)
        final_documents == UniqueDocs(rt.docs, {})
        out(status, requests, documents) ==
            [status |-> status, requests |-> requests, documents |-> documents,
             conversation_id |-> bot.conversation_id, message |-> user_message,
             index |-> store.index, candidates |-> rt.candidates,
             ranked |-> rt.ranked]
    IN  IF rt.raised THEN out("raised", rt.requests, <<>>)
        ELSE IF fail = "chat_stream"
        THEN out("raised", Append(rt.requests, Request("chat_stream")), <<>>)
        ELSE out("stream", Append(rt.requests, Request("chat_stream")),
                 final_documents)

\* the answers of the providers to one respond call: which request raises,
\* the order index.query ranks the stored ids in (the rotations of one
\* ordering of them) and the positions co.rerank returns.  A request that
\* raises before the answers are read leaves them unread.
RespondOutcomes(data) ==
    LET ids == CHOOSE p \in Perms(DOMAIN data) : TRUE
        n == Len(ids)
        rot(k) == [j \in 1..n |-> ids[((j + k - 1) % n) + 1]]
        ranks == RerankResults(Least(retrieve_top_k, n), rerank_top_k)
        o(fail, order, rk) == [fail |-> fail, order |-> order, ranks |-> rk]
    IN  {o(fail, ids, CHOOSE rk \in ranks : TRUE) :
            fail \in {"embed", "query", "rerank"}}
        \cup {o(fail, rot(k), rk) : fail \in {"none", "chat_stream"},
                                    k \in 0..(IF n = 0 THEN 0 ELSE n - 1),
                                    rk \in ranks}

-----------------------------------------------------------------------------
(* app.py: the Streamlit script.  Every widget event reruns the script     *)
(* from the top: the upload section (lines 50-87), then the chat section   *)
(* (lines 97-129), whose streaming loop is a step of its own.              *)

MaxStores == 3
MaxHistory == 2
MaxLibStores == 2

Prompts == {"Why?"}

\* the leftover entry of an index an earlier session has filled
OldEntries ==
    [id \in {"7"} |-> [values |-> Embedding(Str(<<"o", "l", "d">>), "search_document"),
                       metadata |-> [text |-> Str(<<"o", "l", "d">>)]]]

\* ingest: the file process_document was called on, how it ended, the
\* requests it issued and the number of index entries it found
NoIngest == [file |-> None, status |-> "none", requests |-> <<>>, before |-> 0]

Event(type, text) == [event_type |-> type, text |-> text]

\* the event streams co.chat_stream may yield
Streams ==
    { <<Event("stream-start", ""), Event("text-generation", "It "),
        Event("text-generation", "is."), Event("stream-end", "")>>,
      <<Event("stream-start", ""), Event("stream-end", "")>> }

\* full_response: the texts of the text-generation events, concatenated
RECURSIVE FullResponse(_)
FullResponse(events) ==
    IF events = <<>> THEN ""
    ELSE (IF Head(events).event_type = "text-generation"
          THEN Head(events).text ELSE "") \o FullResponse(Tail(events))

Message(role, content) == [role |-> role, content |-> content]

\* st.session_state.chat_history = [] after a processed upload
ClearedHistory(history) == <<>>

TypeOK ==
    /\ api_keys \in BOOLEAN
    /\ uploaded_file \in Files \cup {None}
    /\ prompt \in Prompts \cup {None}
    /\ processed_file_id \in Files \cup {None}
    /\ pc \in {"idle", "chat", "responding"}
    /\ Len(stores) <= MaxStores
    /\ Len(chat_history) <= MaxHistory
    /\ vector_store \in 0..Len(stores)
    /\ chatbot.vectorstore \in 0..Len(stores)
    /\ chatbot.conversation_id \in 0..uuids
    /\ index_names \subseteq {index_name}

Init ==
    /\ api_keys = FALSE
    /\ uploaded_file = None
    /\ prompt = None
    /\ pc = "idle"
    /\ chat_history = <<>>
    /\ vector_store = 0
    /\ chatbot = NoChatbot
    /\ processed_file_id = None
    /\ stores = <<>>
    /\ \/ index_names = {} /\ index_data = EmptyIndex
       \/ index_names = {index_name} /\ index_data = EmptyIndex
       \/ index_names = {index_name} /\ index_data = OldEntries
    /\ uuids = 0
    /\ ingest = NoIngest
    /\ retrieval = NoRetrieval
    /\ shown = {}
    /\ last_replace = index_data
    /\ arg = <<>>
    /\ ret = <<>>

\* lines 50-87 with the widgets holding upl and keys; `fail` is the request
\* of process_document that raises, at its batch number `at`
UploadSection(upl, keys, fail, at) ==
    IF upl # None /\ upl # processed_file_id
    THEN IF ~keys
         THEN /\ fail = "none"
              /\ shown' = {"keys_missing"}
              /\ ingest' = NoIngest
              /\ UNCHANGED <<chat_history, vector_store, chatbot, processed_file_id,
                             stores, index_names, index_data, uuids, last_replace>>
         ELSE /\ Len(stores) < MaxStores
              /\ LET oid == Len(stores) + 1
                     r == process_document(NewVectorStore, index_names, index_data,
                                           upl, fail, at)
                 IN  /\ stores' = Append(stores, [NewVectorStore EXCEPT !.index = r.index])
                     /\ vector_store' = oid
                     /\ index_names' = r.names
                     /\ index_data' = r.data
                     /\ ingest' = [file |-> upl, status |-> r.status,
                                   requests |-> r.requests,
                                   before |-> Cardinality(DOMAIN index_data)]
                     /\ last_replace' = IF r.status = "ok" THEN r.data ELSE last_replace
                     /\ IF r.status = "raised"
                        THEN /\ shown' = {"processing_error"}
                             /\ UNCHANGED <<chat_history, chatbot, processed_file_id, uuids>>
                        ELSE /\ chatbot' = NewChatbot(oid, uuids)
                             /\ uuids' = uuids + 1
                             /\ processed_file_id' = upl
                             /\ chat_history' = ClearedHistory(chat_history)
                             /\ shown' = {"processed"}
    ELSE /\ fail = "none"
         /\ shown' = {}
         /\ ingest' = NoIngest
         /\ UNCHANGED <<chat_history, vector_store, chatbot, processed_file_id,
                        stores, index_names, index_data, uuids, last_replace>>

\* one run of the script up to the chat section
Rerun(upl, keys, p) ==
    /\ pc = "idle"
    /\ uploaded_file' = upl
    /\ api_keys' = keys
    /\ prompt' = p
    /\ pc' = IF p = None THEN "idle" ELSE "chat"
    /\ retrieval' = NoRetrieval
    /\ \E fail \in IngestFailures : \E at \in FailPoints(upl, fail) :
         UploadSection(upl, keys, fail, at)
    /\ UNCHANGED <<arg, ret>>

\* the user picks a file in the uploader
UploadFile(f) == uploaded_file # f /\ Rerun(f, api_keys, None)

\* the user removes the file from the uploader
RemoveFile == uploaded_file # None /\ Rerun(None, api_keys, None)

\* the user fills in or empties the API keys in the sidebar
EnterKeys(keys) == api_keys # keys /\ Rerun(uploaded_file, keys, None)

\* the user submits a question in the chat input
Ask(p) == Len(chat_history) + 2 <= MaxHistory /\ Rerun(uploaded_file, api_keys, p)

\* lines 97-114: the question reaches the chat section
ChatSection ==
    /\ pc = "chat"
    /\ IF chatbot = NoChatbot
       THEN /\ shown' = shown \cup {"upload_first"}
            /\ pc' = "idle"
            /\ prompt' = None
            /\ UNCHANGED <<chat_history, retrieval>>
       ELSE \E o \in RespondOutcomes(index_data) :
              LET r == respond(chatbot, stores[chatbot.vectorstore], index_data,
                               prompt, o.fail, o.order, o.ranks)
              IN  /\ chat_history' = Append(chat_history, Message("user", prompt))
                  /\ retrieval' = r
                  /\ IF r.status = "raised"
                     THEN /\ shown' = shown \cup {"response_error"}
                          /\ pc' = "idle"
                          /\ prompt' = None
                     ELSE /\ pc' = "responding"
                          /\ UNCHANGED <<shown, prompt>>
    /\ UNCHANGED <<api_keys, uploaded_file, vector_store, chatbot, processed_file_id,
                   stores, index_names, index_data, uuids, ingest, last_replace,
                   arg, ret>>

\* lines 117-129: the stream is consumed to its end, or raises on the way
StreamSection ==
    /\ pc = "responding"
    /\ \/ \E events \in Streams :
            /\ chat_history' = Append(chat_history,
                                      Message("assistant", FullResponse(events)))
            /\ shown' = shown
       \/ /\ shown' = shown \cup {"response_error"}
          /\ UNCHANGED chat_history
    /\ pc' = "idle"
    /\ prompt' = None
    /\ retrieval' = NoRetrieval
    /\ UNCHANGED <<api_keys, uploaded_file, vector_store, chatbot, processed_file_id,
                   stores, index_names, index_data, uuids, ingest, last_replace,
                   arg, ret>>

Next ==
    \/ \E f \in Files : UploadFile(f)
    \/ RemoveFile
    \/ \E keys \in BOOLEAN : EnterKeys(keys)
    \/ \E p \in Prompts : Ask(p)
    \/ ChatSection
    \/ StreamSection

Spec == Init /\ [][Next]_vars

-----------------------------------------------------------------------------
(* The classes used directly: any order of VectorStore(...),               *)
(* process_document, Chatbot(...) and respond                              *)

LibVectorStore ==
    /\ Len(stores) < MaxLibStores
    /\ stores' = Append(stores, NewVectorStore)
    /\ vector_store' = Len(stores) + 1
    /\ ingest' = NoIngest
    /\ retrieval' = NoRetrieval
    /\ UNCHANGED <<api_keys, uploaded_file, prompt, pc, chat_history, chatbot,
                   processed_file_id, index_names, index_data, uuids, shown,
                   last_replace, arg, ret>>

LibProcessDocument(f) ==
    /\ vector_store # 0
    /\ \E fail \in IngestFailures : \E at \in FailPoints(f, fail) :
         LET r == process_document(stores[vector_store], index_names, index_data,
                                   f, fail, at)
         IN  /\ stores' = [stores EXCEPT ![vector_store].index = r.index]
             /\ index_names' = r.names
             /\ index_data' = r.data
             /\ ingest' = [file |-> f, status |-> r.status, requests |-> r.requests,
                           before |-> Cardinality(DOMAIN index_data)]
             /\ last_replace' = IF r.status = "ok" THEN r.data ELSE last_replace
    /\ retrieval' = NoRetrieval
    /\ UNCHANGED <<api_keys, uploaded_file, prompt, pc, chat_history, vector_store,
                   chatbot, processed_file_id, uuids, shown, arg, ret>>

LibChatbot ==
    /\ vector_store # 0
    /\ uuids < MaxLibStores
    /\ chatbot' = NewChatbot(vector_store, uuids)
    /\ uuids' = uuids + 1
    /\ ingest' = NoIngest
    /\ retrieval' = NoRetrieval
    /\ UNCHANGED <<api_keys, uploaded_file, prompt, pc, chat_history, vector_store,
                   processed_file_id, stores, index_names, index_data, shown,
                   last_replace, arg, ret>>

LibRespond(p) ==
    /\ chatbot # NoChatbot
    /\ \E o \in RespondOutcomes(index_data) :
         retrieval' = respond(chatbot, stores[chatbot.vectorstore], index_data,
                              p, o.fail, o.order, o.ranks)
    /\ ingest' = NoIngest
    /\ UNCHANGED <<api_keys, uploaded_file, prompt, pc, chat_history, vector_store,
                   chatbot, processed_file_id, stores, index_names, index_data,
                   uuids, shown, last_replace, arg, ret>>

NextLib ==
    \/ LibVectorStore
    \/ \E f \in Files : LibProcessDocument(f)
    \/ LibChatbot
    \/ \E p \in Prompts : LibRespond(p)

SpecLib == Init /\ [][NextLib]_vars

-----------------------------------------------------------------------------
(* _split_text and _embed_chunks called on their own                       *)

Idle ==
    /\ api_keys = FALSE /\ uploaded_file = None /\ prompt = None /\ pc = "idle"
    /\ chat_history = <<>> /\ vector_store = 0 /\ chatbot = NoChatbot
    /\ processed_file_id = None /\ stores = <<>> /\ index_names = {}
    /\ index_data = EmptyIndex /\ uuids = 0 /\ ingest = NoIngest
    /\ retrieval = NoRetrieval /\ shown = {} /\ last_replace = EmptyIndex

UnchangedApp ==
    UNCHANGED <<api_keys, uploaded_file, prompt, pc, chat_history, vector_store,
                chatbot, processed_file_id, stores, index_names, index_data, uuids,
                ingest, retrieval, shown, last_replace>>

SplitInputs ==
    {[text |-> t, chunk_size |-> c] : t \in TextsUpTo(MaxTextLen), c \in 1..MaxChunkSize}
    \cup {[text |-> Scenario1Text, chunk_size |-> 20]}

InitSplit == Idle /\ arg \in SplitInputs /\ ret = <<>>

CallSplitText ==
    /\ ret = <<>>
    /\ ret' = <<split_text(arg.text, arg.chunk_size)>>
    /\ UNCHANGED arg
    /\ UnchangedApp

SpecSplit == InitSplit /\ [][CallSplitText]_vars

ChunkTexts == {Str(<<"a", ".">>), Str(<<"b">>), Str(<<"a", " ", "b", ".">>)}

ChunkLists == UNION {[1..k -> ChunkTexts] : k \in 0..MaxChunks}

EmbedInputs == {[chunks |-> c, batch_size |-> b] : c \in ChunkLists, b \in 1..MaxBatch}

InitEmbed == Idle /\ arg \in EmbedInputs /\ ret = <<>>

CallEmbedChunks ==
    /\ ret = <<>>
    /\ ret' = <<embed_chunks(arg.chunks, arg.batch_size, {})>>
    /\ UNCHANGED arg
    /\ UnchangedApp

SpecEmbed == InitEmbed /\ [][CallEmbedChunks]_vars

-----------------------------------------------------------------------------
(* Properties                                                              *)

\* the index entries of a fully ingested file: ids "0" .. "n-1", entry i
\* holding chunk i and its document-mode embedding
ChunksOf(f) == split_text(PdfText(f), default_chunk_size)
ExpectedIndex(f) ==
    LET chunks == ChunksOf(f)
    IN  [id \in {Digits[i] : i \in 1..Len(chunks)} |->
            LET i == CHOOSE i \in 1..Len(chunks) : Digits[i] = id
            IN  [values |-> Embedding(chunks[i], "search_document"),
                 metadata |-> [text |-> chunks[i]]]]

Requested(requests, api) == \E i \in 1..Len(requests) : requests[i].api = api

\* C1: respond on a session whose vector store never got an index handle
\* signals "not ready" and issues no provider request (no embed, no rerank,
\* no chat).
C1_NotReadyNoProviderCall ==
    (retrieval.status # "none" /\ ~retrieval.index)
        => (retrieval.status = "not_ready" /\ retrieval.requests = <<>>)

\* C2: after a process_document that ran to its end, the index holds exactly
\* the chunks of that document, ids "0" .. "n-1", entry i with chunk i's
\* text and embedding, whatever the index held before.
C2_IndexHoldsOnlyLastDocument ==
    ingest.status = "ok" => index_data = ExpectedIndex(ingest.file)

\* a one-chunk document has replaced the four entries of a larger one
C2_Witness ==
    /\ ingest.status = "ok"
    /\ ingest.before = 4
    /\ Len(ChunksOf(ingest.file)) = 1
    /\ DOMAIN index_data = {"0"}

\* C3: once a document has been ingested, a process_document that raises
\* leaves the index as it was after the last completed replace: never
\* empty, never with part of the new entries.
C3_FailedIngestionKeepsIndex ==
    (ingest.status = "raised" /\ processed_file_id # None)
        => index_data = last_replace

\* C4: ingesting a document whose extracted text is empty is a no-op:
\* _split_text("") is empty, and process_document (no provider raising)
\* returns early having issued no embed and no index request, the index
\* left as it was.
C4_EmptyTextIsNoOp ==
    (/\ ingest.status \in {"ok", "early"}
     /\ ~extract_text_from_pdf(ingest.file).raised
     /\ extract_text_from_pdf(ingest.file).text = <<>>)
        => /\ split_text(<<>>, default_chunk_size) = <<>>
           /\ ingest.status = "early"
           /\ ingest.requests = <<>>
           /\ index_data = last_replace

\* C5: _split_text on "The sky is blue. Grass is green. Water is wet." with
\* chunk_size 20 returns exactly the three sentences, each fragment with
\* its ". " put back once and no extra character.
C5_Scenario1Chunks ==
    (ret # <<>> /\ arg.text = Scenario1Text /\ arg.chunk_size = 20)
        => ret[1] = Scenario1Chunks

\* C6: no chunk is empty, and a chunk is longer than chunk_size only if it
\* is a single fragment that is itself longer than chunk_size.
C6_ChunkLengthBound ==
    ret # <<>> =>
        \A i \in 1..Len(ret[1]) :
            LET chunk == ret[1][i]
                sentences == PySplit(arg.text)
            IN  /\ chunk # <<>>
                /\ \/ StrLen(chunk) <= arg.chunk_size
                   \/ \E k \in 1..Len(sentences) :
                        /\ StrLen(sentences[k]) > arg.chunk_size
                        /\ chunk = Strip(Cat(sentences[k], Delim))

\* C7 as stated: every script run whose uploaded file differs from
\* processed_file_id (keys given) ends the upload section with a fresh
\* chatbot, a conversation id never used before, and an empty history.
C7_EveryNewUploadResets ==
    [][(pc = "idle" /\ api_keys' /\ uploaded_file' # None
                    /\ uploaded_file' # processed_file_id)
          => /\ chatbot' # NoChatbot
             /\ chatbot'.conversation_id \notin 0..uuids
             /\ chat_history' = <<>>]_vars

\* C7 amended: an upload section whose process_document does not raise
\* leaves a fresh chatbot on the new vector store, with a conversation id
\* never used before, and an empty history; every other step keeps the
\* chatbot; and respond sends the chatbot's conversation id.
C7_CompletedIngestionResets ==
    /\ [][IF pc = "idle" /\ ingest'.status \in {"ok", "early"}
          THEN /\ chatbot' # NoChatbot
               /\ chatbot'.conversation_id \notin 0..uuids
               /\ chatbot'.vectorstore = vector_store'
               /\ chatbot'.vectorstore > Len(stores)
               /\ processed_file_id' = uploaded_file'
               /\ chat_history' = <<>>
          ELSE chatbot' = chatbot /\ processed_file_id' = processed_file_id]_vars
    /\ [](retrieval.status # "none"
            => /\ chatbot # NoChatbot
               /\ retrieval.conversation_id = chatbot.conversation_id)

\* a second document has been ingested and a question is being answered
\* under the second conversation id
C7_Witness ==
    /\ pc = "responding"
    /\ chatbot.conversation_id = 2
    /\ retrieval.conversation_id = 2
    /\ ingest.status = "none"

\* position of the first document of `ranked` with the given text
FirstAt(ranked, text) == Min({k \in 1..Len(ranked) : ranked[k] = text})

\* C8: the documents sent to the generation model are at most rerank_top_k,
\* pairwise different in text, payloads of the query's candidates, and in
\* the reranker's order of first appearance; with no candidate the reranker
\* is not called and nothing is sent.
C8_GroundingDocuments ==
    LET docs == retrieval.documents
        ranked == retrieval.ranked
    IN  /\ retrieval.status = "stream" =>
            /\ Len(docs) <= 3
            /\ \A i, j \in 1..Len(docs) : i # j => docs[i].text # docs[j].text
            /\ \A i \in 1..Len(docs) : docs[i] \in retrieval.candidates
            /\ {docs[i].text : i \in 1..Len(docs)}
                  = {ranked[k] : k \in 1..Len(ranked)}
            /\ \A i, j \in 1..Len(docs) :
                  i < j => FirstAt(ranked, docs[i].text) < FirstAt(ranked, docs[j].text)
        /\ (retrieval.status # "none" /\ retrieval.candidates = {}) =>
            /\ docs = <<>>
            /\ ~Requested(retrieval.requests, "rerank")

\* the reranker returned three texts, two of them equal, and two documents
\* were sent
C8_Witness ==
    /\ retrieval.status = "stream"
    /\ Len(retrieval.ranked) = 3
    /\ Len(retrieval.documents) = 2
    /\ Cardinality(DOMAIN index_data) = 4

\* C9: _embed_chunks sends consecutive batches of at most batch_size texts
\* in document mode and returns the vector of chunk i at position i, as one
\* unbatched request would.
C9_BatchedEmbeddingEqualsUnbatched ==
    ret # <<>> =>
        LET r == ret[1]
            n == Len(arg.chunks)
            b == arg.batch_size
            m == Len(r.requests)
        IN  /\ ~r.raised
            /\ Len(r.embeddings) = n
            /\ \A i \in 1..n :
                 r.embeddings[i] = Embedding(arg.chunks[i], "search_document")
            /\ r.embeddings = co_embed(arg.chunks, "search_document")
            /\ m * b >= n /\ (m - 1) * b < n
            /\ \A k \in 1..m :
                 /\ r.requests[k].api = "embed"
                 /\ r.requests[k].input_type = "search_document"
                 /\ r.requests[k].n = (IF k < m THEN b ELSE n - (m - 1) * b)
                 /\ r.requests[k].n >= 1

\* four chunks went out in two batches, a full one and a shorter one
C9_Witness ==
    /\ ret # <<>>
    /\ Len(arg.chunks) = 4
    /\ arg.batch_size = 3
    /\ Len(ret[1].requests) = 2

\* C10: whenever the session has a chatbot, processed_file_id is set, the
\* chatbot's vector store is the session's vector_store with its index
\* handle set, and the index holds exactly the chunks of the file
\* processed_file_id names.
C10_ChatbotMatchesIndex ==
    chatbot # NoChatbot =>
        /\ processed_file_id # None
        /\ chatbot.vectorstore = vector_store
        /\ stores[vector_store].index
        /\ index_data = ExpectedIndex(processed_file_id)

====
